---- MODULE Spec2Model ----
(***************************************************************************)
(* Roulette Tracker Prediction Server (src/server.py).                     *)
(*                                                                         *)
(* The server is one pure numeric core (calculate_angular_velocity,        *)
(* calculate_deceleration, predict_for_direction, compute_predictions)     *)
(* behind one HTTP handler (predict_marks).  The core computes in Python   *)
(* floats, i.e. IEEE-754 binary floating point: every operation rounds to  *)
(* the nearest representable value (ties to even), overflows to an         *)
(* infinity, and produces NaN for inf - inf, 0 * inf and inf / inf.  The   *)
(* model keeps exactly that arithmetic and scales the format down: a       *)
(* float has MantBits significant bits, its smallest positive value        *)
(* (the subnormal step) is 2^-FracBits and its largest finite value is     *)
(* (2^MantBits - 1) * 2^(MaxShift - FracBits).  A finite float is held as  *)
(* the integer number n of steps of 2^-FracBits it is worth.  The sign of  *)
(* zero is not kept: no operation of the core can observe it (every        *)
(* division is guarded by a test that its divisor is > 0 or /= 0).         *)
(***************************************************************************)
EXTENDS Integers, Sequences, FiniteSets, TLC

\* ------------------------------------------------------------------------
\* The floating-point format
\* ------------------------------------------------------------------------
MantBits == 6
FracBits == 8
MaxShift == 11

RECURSIVE Pow2(_)
Pow2(k) == IF k <= 0 THEN 1 ELSE 2 * Pow2(k - 1)

RECURSIVE BitLen(_)
BitLen(m) == IF m = 0 THEN 0 ELSE 1 + BitLen(m \div 2)

RECURSIVE TrailingZeros(_)
TrailingZeros(n) == IF n = 0 \/ n % 2 = 1 THEN 0 ELSE 1 + TrailingZeros(n \div 2)

Abs(i) == IF i < 0 THEN -i ELSE i
SignOf(i) == IF i < 0 THEN -1 ELSE IF i > 0 THEN 1 ELSE 0

\* The largest finite float, in steps.
MaxN == (Pow2(MantBits) - 1) * Pow2(MaxShift)

Fin(n) == [k |-> "fin", n |-> n]
PInf == [k |-> "inf", n |-> 1]
NInf == [k |-> "inf", n |-> -1]
NaN == [k |-> "nan", n |-> 0]
Inf(sgn) == IF sgn < 0 THEN NInf ELSE PInf

\* The outcome of a division by zero (Python raises ZeroDivisionError); it
\* is carried through every later operation.
DivZero == [k |-> "zde", n |-> 0]
Raised(a, b) == a.k = "zde" \/ b.k = "zde"

IsFinite(a) == a.k = "fin"
IsNaN(a) == a.k = "nan"
Sign(a) == SignOf(a.n)

\* sgn * mant * 2^exp steps (mant >= 0), rounded to the nearest float, ties
\* to the even mantissa; a result beyond MaxN is an infinity.  q is the
\* exponent of the spacing of the floats around the value: 0 for the
\* subnormals, else what leaves MantBits bits of mant.
Quantum(bits, exp) == IF bits + exp - MantBits > 0 THEN bits + exp - MantBits ELSE 0
HalfEven(r, rem, half) == IF rem > half \/ (rem = half /\ r % 2 = 1) THEN r + 1 ELSE r
Overflowed(sgn, n) == IF n > MaxN THEN Inf(sgn) ELSE Fin(sgn * n)
RoundAt(sgn, mant, exp, bits, q) ==
  IF q > MaxShift THEN Inf(sgn)
  ELSE IF q - exp <= 0 THEN Fin(sgn * mant * Pow2(exp))
  ELSE IF q - exp > bits + 1 THEN Fin(0)
  ELSE Overflowed(sgn, HalfEven(mant \div Pow2(q - exp), mant % Pow2(q - exp),
                                Pow2(q - exp - 1)) * Pow2(q))
RoundME(sgn, mant, exp) ==
  IF mant = 0 THEN Fin(0)
  ELSE RoundAt(sgn, mant, exp, BitLen(mant), Quantum(BitLen(mant), exp))

\* sgn * (a / b) * 2^exp steps (a >= 0, b > 0), correctly rounded: the
\* quotient is taken to MantBits + 2 bits and a sticky bit.
Guard(a, b) ==
  IF MantBits + 2 + BitLen(b) - BitLen(a) > 0
  THEN MantBits + 2 + BitLen(b) - BitLen(a) ELSE 0
RoundQuot(sgn, num, b, exp) ==
  RoundME(sgn, 2 * (num \div b) + (IF num % b = 0 THEN 0 ELSE 1), exp)
RoundRat(sgn, a, b, exp) ==
  IF a = 0 THEN Fin(0)
  ELSE RoundQuot(sgn, a * Pow2(Guard(a, b)), b, exp - Guard(a, b) - 1)

\* float(i) of a Python int, and the float nearest to the literal a / b.
IntToF(i) == RoundME(SignOf(i), Abs(i), FracBits)
Lit(a, b) == RoundRat(1, a, b, FracBits)

FNeg(a) == [a EXCEPT !.n = -a.n]
FAbs(a) == [a EXCEPT !.n = Abs(a.n)]

FAdd(a, b) ==
  IF Raised(a, b) THEN DivZero
  ELSE IF IsNaN(a) \/ IsNaN(b) THEN NaN
  ELSE IF a.k = "inf" /\ b.k = "inf" THEN (IF a.n = b.n THEN a ELSE NaN)
  ELSE IF a.k = "inf" THEN a
  ELSE IF b.k = "inf" THEN b
  ELSE RoundME(SignOf(a.n + b.n), Abs(a.n + b.n), 0)

FSub(a, b) == FAdd(a, FNeg(b))

\* The product of two finite floats: of their odd parts, to keep it small.
OddPart(n) == n \div Pow2(TrailingZeros(n))
MulFinite(sgn, na, nb) ==
  RoundME(sgn, OddPart(na) * OddPart(nb), TrailingZeros(na) + TrailingZeros(nb) - FracBits)

FMul(a, b) ==
  IF Raised(a, b) THEN DivZero
  ELSE IF IsNaN(a) \/ IsNaN(b) THEN NaN
  ELSE IF a.k = "inf" \/ b.k = "inf"
       THEN (IF a.n = 0 \/ b.n = 0 THEN NaN ELSE Inf(Sign(a) * Sign(b)))
  ELSE MulFinite(Sign(a) * Sign(b), Abs(a.n), Abs(b.n))

FDiv(a, b) ==
  IF Raised(a, b) \/ (IsFinite(b) /\ b.n = 0) THEN DivZero
  ELSE IF IsNaN(a) \/ IsNaN(b) THEN NaN
  ELSE IF a.k = "inf" THEN (IF b.k = "inf" THEN NaN ELSE Inf(Sign(a) * Sign(b)))
  ELSE IF b.k = "inf" THEN Fin(0)
  ELSE RoundRat(Sign(a) * Sign(b), Abs(a.n), Abs(b.n), FracBits)

\* Comparisons: any comparison with NaN is false.
Ordered(a, b) == a.k \in {"fin", "inf"} /\ b.k \in {"fin", "inf"}
Key(a) == IF a.k = "inf" THEN a.n * (MaxN + 1) ELSE a.n
FGt(a, b) == Ordered(a, b) /\ Key(a) > Key(b)
FLt(a, b) == FGt(b, a)
FLe(a, b) == Ordered(a, b) /\ Key(a) <= Key(b)
FEq(a, b) == Ordered(a, b) /\ Key(a) = Key(b)

\* math.sqrt of a finite float a > 0, correctly rounded: with v = a.n *
\* 2^(FracBits + 2j), the integer square root of v is sqrt(a) * 2^j in steps;
\* j gives it MantBits + 2 bits, and a sticky bit records an inexact root.
RECURSIVE ISqrtBits(_, _, _)
ISqrtBits(v, r, b) ==
  IF b < 0 THEN r
  ELSE ISqrtBits(v, IF (r + Pow2(b)) * (r + Pow2(b)) <= v THEN r + Pow2(b) ELSE r, b - 1)
ISqrt(v) == ISqrtBits(v, 0, (BitLen(v) + 1) \div 2)
SqrtScale(w) ==
  IF 2 * (MantBits + 2) + 2 - BitLen(w) > 0
  THEN (2 * (MantBits + 2) + 2 - BitLen(w)) \div 2 ELSE 0
SqrtOf(v, j) ==
  RoundME(1, 2 * ISqrt(v) + (IF ISqrt(v) * ISqrt(v) = v THEN 0 ELSE 1), -j - 1)
FSqrt(a) ==
  SqrtOf(a.n * Pow2(FracBits) * Pow2(2 * SqrtScale(a.n * Pow2(FracBits))),
         SqrtScale(a.n * Pow2(FracBits)))

\* ------------------------------------------------------------------------
\* Constants of the program
\* ------------------------------------------------------------------------
ROULETTE_SEQUENCE ==
  << 0, 32, 15, 19, 4, 21, 2, 25, 17, 34, 6, 27, 13,
     36, 11, 30, 8, 23, 10, 5, 24, 16, 33, 1, 20,
     14, 31, 9, 22, 18, 29, 7, 28, 12, 35, 3, 26 >>

Zero == Fin(0)
One == IntToF(1)
\* math.pi, and the product 2 * math.pi the code writes out each time.
PI == Lit(355, 113)
TWO_PI == FMul(IntToF(2), PI)
\* G = 9.81, and math.tan(ALPHA) for ALPHA = 0.02 (0.0200026...).
G == Lit(981, 100)
TAN_ALPHA == Lit(20003, 1000000)

\* Line 107, and math.sqrt(critical_velocity_squared) of lines 109-110.
critical_velocity_squared == FMul(FMul(G, TAN_ALPHA), Lit(1, 2))
sqrt_critical_velocity == FSqrt(critical_velocity_squared)

\* ------------------------------------------------------------------------
\* CORE PHYSICS HELPERS
\* ------------------------------------------------------------------------
\* sum(seq): Python adds left to right, starting from the int 0.
RECURSIVE SumFrom(_, _, _)
SumFrom(acc, seq, i) ==
  IF i > Len(seq) THEN acc ELSE SumFrom(FAdd(acc, seq[i]), seq, i + 1)
Sum(seq) == SumFrom(Zero, seq, 1)

\* periods = [times[i] - times[i - 1] for i in range(1, len(times))]
Periods(times) == [i \in 1..(Len(times) - 1) |-> FSub(times[i + 1], times[i])]

\* A mean taken over the marks instead of the periods.
AvgOverMarks(periods) == FDiv(Sum(periods), IntToF(Len(periods) + 1))

\* avg_period = sum(periods) / len(periods)
AvgPeriod(periods) == FDiv(Sum(periods), IntToF(Len(periods)))

\* 1.0 / avg_period if avg_period > 0 else 0.0
Frequency(avg_period) == IF FGt(avg_period, Zero) THEN FDiv(One, avg_period) ELSE Zero

calculate_angular_velocity(times) ==
  IF Len(times) < 2 THEN Zero ELSE Frequency(AvgPeriod(Periods(times)))

\* The consecutive pairs the loop keeps: those whose dt is not <= 0.
ValidPairs(times) ==
  SelectSeq([i \in 1..(Len(times) - 1) |-> i],
            LAMBDA i : ~FLe(FSub(times[i + 1], times[i]), Zero))

\* velocities and time_points, one entry per kept pair.
Velocities(times, pairs) ==
  [j \in 1..Len(pairs) |-> FDiv(TWO_PI, FSub(times[pairs[j] + 1], times[pairs[j]]))]
TimePoints(times, pairs) ==
  [j \in 1..Len(pairs) |-> FDiv(FAdd(times[pairs[j] + 1], times[pairs[j]]), IntToF(2))]
Products(xs, ys) == [j \in 1..Len(xs) |-> FMul(xs[j], ys[j])]

\* Lines 82-88: the slope over denom, negated; 0.0 for a zero denom.
NegSlopeOver(n, sum_x, sum_y, sum_xy, denom) ==
  IF FEq(denom, Zero) THEN Zero
  ELSE FNeg(FDiv(FSub(FMul(n, sum_xy), FMul(sum_x, sum_y)), denom))
NegSlope(n, sum_x, sum_y, sum_xy, sum_x2) ==
  NegSlopeOver(n, sum_x, sum_y, sum_xy, FSub(FMul(n, sum_x2), FMul(sum_x, sum_x)))

\* Lines 73-88.
Regression(time_points, velocities) ==
  IF Len(velocities) < 2 THEN Zero
  ELSE NegSlope(IntToF(Len(velocities)), Sum(time_points), Sum(velocities),
                Sum(Products(time_points, velocities)),
                Sum(Products(time_points, time_points)))
RegressionOver(times, pairs) ==
  Regression(TimePoints(times, pairs), Velocities(times, pairs))

calculate_deceleration(times) ==
  IF Len(times) < 3 THEN Zero ELSE RegressionOver(times, ValidPairs(times))

\* ------------------------------------------------------------------------
\* predict_for_direction
\* ------------------------------------------------------------------------
scatter_offset == 5
left_offset == 12
right_offset == 0
pockets == 37

\* A floor that tests alpha < 0 and so lets a zero deceleration through.
ClampAlphaStrict(alpha) == IF FLt(alpha, Zero) THEN Lit(1, 10) ELSE alpha

\* Lines 98-105: the floor/clamp of the four estimates.
ClampAlpha(alpha) == IF FLe(alpha, Zero) THEN Lit(1, 10) ELSE alpha
ClampWheelOmega(omega) == IF FLe(omega, Zero) THEN One ELSE omega
ClampBallOmega(omega) == IF FLe(omega, Zero) THEN IntToF(2) ELSE omega

\* A drop time computed without the test against the critical velocity.
RawTDropUnguarded(ball_omega, ball_alpha) ==
  IF FGt(ball_alpha, Zero)
  THEN FDiv(FSub(ball_omega, sqrt_critical_velocity), ball_alpha)
  ELSE IntToF(3)

\* Lines 109-112: t_drop as first assigned.
RawTDrop(ball_omega, ball_alpha) ==
  IF FGt(ball_alpha, Zero) /\ FGt(ball_omega, sqrt_critical_velocity)
  THEN FDiv(FSub(ball_omega, sqrt_critical_velocity), ball_alpha)
  ELSE IntToF(3)

\* Lines 114-117: the two clamps of t_drop, in order.
ClampNegative(t) == IF FLt(t, Zero) THEN IntToF(3) ELSE t
ClampLong(t) == IF FGt(t, IntToF(10)) THEN IntToF(5) ELSE t
ClampTDrop(t) == ClampLong(ClampNegative(t))

\* Lines 119-120: omega * t - 0.5 * alpha * t * t.
Travel(omega, alpha, t) ==
  FSub(FMul(omega, t), FMul(FMul(FMul(Lit(1, 2), alpha), t), t))

\* Lines 122-125: the fallback angles 2 * math.pi * 3 and 2 * math.pi * 2.
FiniteOr(theta, turns) == IF IsFinite(theta) THEN theta ELSE FMul(TWO_PI, IntToF(turns))

\* The two direction offsets exchanged.
DirectionOffsetSwapped(wheel_direction) ==
  IF wheel_direction = "left" THEN 0 ELSE 12

\* Lines 127-132.
RelativeAngle(theta_ball, theta_wheel, wheel_direction) ==
  IF wheel_direction = "left"
  THEN FDiv(FAdd(theta_ball, theta_wheel), TWO_PI)
  ELSE FDiv(FSub(theta_ball, theta_wheel), TWO_PI)
DirectionOffset(wheel_direction) ==
  IF wheel_direction = "left" THEN left_offset ELSE right_offset

\* int(x): truncation of a finite float; the exception otherwise
\* (OverflowError for an infinity, ValueError for NaN).
IntRaises(a) ==
  CASE a.k = "fin" -> "none"
    [] a.k = "inf" -> "OverflowError"
    [] a.k = "nan" -> "ValueError"
    [] OTHER -> "ZeroDivisionError"
IntOf(a) == Sign(a) * (Abs(a.n) \div Pow2(FracBits))

\* Lines 134-138.
Scaled(relative_angle) == FMul(FAbs(relative_angle), IntToF(pockets))
PocketOffset(relative_angle) == IntOf(Scaled(relative_angle)) % pockets
FinalPocketIndex(relative_angle, wheel_direction) ==
  (PocketOffset(relative_angle) + scatter_offset + DirectionOffset(wheel_direction))
    % pockets
Returned(relative_angle, wheel_direction) ==
  IF IntRaises(Scaled(relative_angle)) = "none"
  THEN ROULETTE_SEQUENCE[FinalPocketIndex(relative_angle, wheel_direction) + 1]
  ELSE -1

\* The frame of predict_for_direction's locals when it returns or raises,
\* built in the order the code assigns them.
Frame(dir, wo, bo, wa, ba, raw, t, tb, tw, rel) ==
  [direction |-> dir, wheel_omega |-> wo, ball_omega |-> bo,
   wheel_alpha |-> wa, ball_alpha |-> ba, raw_t_drop |-> raw, t_drop |-> t,
   theta_ball |-> tb, theta_wheel |-> tw, relative_angle |-> rel,
   raised |-> IntRaises(Scaled(rel)), ret |-> Returned(rel, dir)]
FrameAngles(dir, wo, bo, wa, ba, raw, t, tb, tw) ==
  Frame(dir, wo, bo, wa, ba, raw, t, tb, tw, RelativeAngle(tb, tw, dir))
FrameDrop(dir, wo, bo, wa, ba, raw, t) ==
  FrameAngles(dir, wo, bo, wa, ba, raw, t,
              FiniteOr(Travel(bo, ba, t), 3), FiniteOr(Travel(wo, wa, t), 2))
FrameKinematics(dir, wo, bo, wa, ba) ==
  FrameDrop(dir, wo, bo, wa, ba, RawTDrop(bo, ba), ClampTDrop(RawTDrop(bo, ba)))

predict_for_direction(wheel_times, ball_times, wheel_direction) ==
  FrameKinematics(wheel_direction,
    ClampWheelOmega(FMul(TWO_PI, calculate_angular_velocity(wheel_times))),
    ClampBallOmega(FMul(TWO_PI, calculate_angular_velocity(ball_times))),
    ClampAlpha(calculate_deceleration(wheel_times)),
    ClampAlpha(calculate_deceleration(ball_times)))

\* ------------------------------------------------------------------------
\* compute_predictions: what it raises or returns, and the frames of the
\* calls of predict_for_direction it made, in order.  An exception of the
\* "left" call leaves the "right" call unmade.
\* ------------------------------------------------------------------------
NotEnoughMarks == "Not enough marks to compute prediction"
IntMessage(exc) ==
  IF exc = "OverflowError" THEN "cannot convert float infinity to integer"
  ELSE IF exc = "ValueError" THEN "cannot convert float NaN to integer"
  ELSE "float division by zero"

\* A length test of the wheel sequence alone, and one that reads the mark
\* counts of the request instead of the lengths of its sequences.
TooFewWheelOnly(req) == Len(req.wheel_times) < 2
TooFewByCount(req) == req.wheel_marks < 2 \/ req.ball_marks < 2

TooFewMarks(req) == Len(req.wheel_times) < 2 \/ Len(req.ball_times) < 2

Outcome(exc, msg, calls, left, right) ==
  [exc |-> exc, msg |-> msg, calls |-> calls,
   left_prediction |-> left, right_prediction |-> right]

AfterRight(left, right) ==
  IF right.raised /= "none"
  THEN Outcome(right.raised, IntMessage(right.raised), <<left, right>>, -1, -1)
  ELSE Outcome("none", "", <<left, right>>, left.ret, right.ret)

AfterLeft(req, left) ==
  IF left.raised /= "none"
  THEN Outcome(left.raised, IntMessage(left.raised), <<left>>, -1, -1)
  ELSE AfterRight(left, predict_for_direction(req.wheel_times, req.ball_times, "right"))

compute_predictions(req) ==
  IF TooFewMarks(req)
  THEN Outcome("ValueError", NotEnoughMarks, <<>>, -1, -1)
  ELSE AfterLeft(req, predict_for_direction(req.wheel_times, req.ball_times, "left"))

\* predict_marks, lines 180-185: the HTTP response for an outcome of
\* compute_predictions.  ValueError is caught first; every other exception
\* becomes the fixed 500.
\* A detail that carries the message of every exception.
DetailLeaking(exc, msg) == IF exc = "none" THEN "" ELSE msg

StatusOf(exc) == IF exc = "none" THEN 200 ELSE IF exc = "ValueError" THEN 400 ELSE 500
DetailOf(exc, msg) ==
  IF exc = "none" THEN "" ELSE IF exc = "ValueError" THEN msg ELSE "Prediction failed"

HttpResponse(outc) ==
  [status |-> StatusOf(outc.exc), detail |-> DetailOf(outc.exc, outc.msg),
   left_prediction |-> outc.left_prediction,
   right_prediction |-> outc.right_prediction]

predict_marks(req) == HttpResponse(compute_predictions(req))

\* ------------------------------------------------------------------------
\* Inputs
\* ------------------------------------------------------------------------
MaxBallLen == 4
MaxVelLen == 4

SeqsUpTo(S, n) == UNION {[1..m -> S] : m \in 0..n}

\* Timestamps in seconds: T(a, b) is the float a / b, Step(i) is i times the
\* smallest positive float.
T(a, b) == IF a < 0 THEN FNeg(Lit(-a, b)) ELSE Lit(a, b)
Step(i) == Fin(i)

\* Wheel marks: too few; a second apart; identical; decreasing; a quarter of
\* a second apart; slowing down; returning to the same midpoint (a zero
\* regression denominator); two steps apart and then a second.
WheelInputs ==
  { <<>>, <<T(0, 1)>>,
    <<T(0, 1), T(1, 1)>>, <<T(1, 1), T(1, 1)>>, <<T(1, 1), T(0, 1)>>,
    <<T(0, 1), T(1, 4)>>, <<T(0, 1), T(1, 4), T(1, 1)>>,
    <<T(0, 1), T(1, 1), T(0, 1), T(1, 1)>>,
    <<T(0, 1), Step(2), T(1, 1)>> }

\* Ball marks: every sequence of up to MaxBallLen marks that are two or four
\* steps apart (the fastest the format can tell apart) or 24 seconds apart
\* (slower than the critical velocity).
BallVals == {Step(-4), Step(-2), T(0, 1), T(24, 1)}
BallInputs == SeqsUpTo(BallVals, MaxBallLen)

MarksRequest(wt, bt, wm, bm, mode) ==
  [wheel_times |-> wt, ball_times |-> bt, wheel_marks |-> wm, ball_marks |-> bm,
   mode |-> mode]

CoreRequests == {MarksRequest(wt, bt, 3, 3, "3x3") : wt \in WheelInputs, bt \in BallInputs}

\* The requests of the two-client server: a few timing sequences, under
\* several values of the informational fields.
ServerTimes == { <<T(0, 1)>>, <<T(0, 1), T(1, 1)>>, <<T(0, 1), T(1, 4)>> }
ServerMarks == { <<3, 3, "3x3">>, <<0, 3, "3x3">>, <<3, 0, "3x3">>, <<3, 3, "1x1">> }
Requests ==
  {MarksRequest(wt, bt, m[1], m[2], m[3]) :
     wt \in ServerTimes, bt \in ServerTimes, m \in ServerMarks}

\* The sequences calculate_angular_velocity is applied to on its own.
VelVals == {T(-256, 1), T(0, 1), T(1, 2), T(1, 1), T(3, 2), T(256, 1)}
VelInputs == SeqsUpTo(VelVals, MaxVelLen)

\* ------------------------------------------------------------------------
\* The server: requests arrive, the handler runs (it never awaits, so it
\* runs to completion on the event loop), the response is sent.
\* ------------------------------------------------------------------------
VARIABLES pc, req, out, resp, vel
vars == <<pc, req, out, resp, vel>>

NoReq == MarksRequest(<<>>, <<>>, 0, 0, "")
NoOut == [exc |-> "", msg |-> "", calls |-> <<>>, left_prediction |-> -1,
          right_prediction |-> -1]
NoResp == [status |-> 0, detail |-> "", left_prediction |-> -1, right_prediction |-> -1]
NoVel == [times |-> <<>>, called |-> FALSE, result |-> Zero]

InitSlots(S) ==
  /\ pc = [s \in S |-> "idle"]
  /\ req = [s \in S |-> NoReq]
  /\ out = [s \in S |-> NoOut]
  /\ resp = [s \in S |-> NoResp]

Arrive(s, r) ==
  /\ pc[s] = "idle"
  /\ pc' = [pc EXCEPT ![s] = "pending"]
  /\ req' = [req EXCEPT ![s] = r]
  /\ UNCHANGED <<out, resp, vel>>

\* A handler that keeps its outcome in one place shared by all requests.
RespondShared(s, outc) ==
  /\ out' = [t \in DOMAIN out |-> outc]
  /\ resp' = [resp EXCEPT ![s] = HttpResponse(outc)]
  /\ pc' = [pc EXCEPT ![s] = "done"]
  /\ UNCHANGED <<req, vel>>

\* The handler of slot s ends with outcome outc of compute_predictions.
Respond(s, outc) ==
  /\ out' = [out EXCEPT ![s] = outc]
  /\ resp' = [resp EXCEPT ![s] = HttpResponse(outc)]
  /\ pc' = [pc EXCEPT ![s] = "done"]
  /\ UNCHANGED <<req, vel>>

Handle(s) ==
  /\ pc[s] = "pending"
  /\ Respond(s, compute_predictions(req[s]))

Deliver(s) ==
  /\ pc[s] = "done"
  /\ pc' = [pc EXCEPT ![s] = "idle"]
  /\ req' = [req EXCEPT ![s] = NoReq]
  /\ out' = [out EXCEPT ![s] = NoOut]
  /\ resp' = [resp EXCEPT ![s] = NoResp]
  /\ UNCHANGED vel

CallVelocity ==
  /\ ~vel.called
  /\ vel' = [vel EXCEPT !.called = TRUE,
                        !.result = calculate_angular_velocity(vel.times)]
  /\ UNCHANGED <<pc, req, out, resp>>

\* Two clients of the server.
Init == InitSlots({1, 2}) /\ vel = NoVel
Next ==
  \/ \E s \in DOMAIN pc, r \in Requests : Arrive(s, r)
  \/ \E s \in DOMAIN pc : Handle(s)
  \/ \E s \in DOMAIN pc : Deliver(s)
Spec == Init /\ [][Next]_vars

\* One client, over every pair of input sequences.
InitCore == InitSlots({1}) /\ vel = NoVel
NextCore ==
  \/ \E r \in CoreRequests : Arrive(1, r)
  \/ Handle(1)
  \/ Deliver(1)
SpecCore == InitCore /\ [][NextCore]_vars

\* calculate_angular_velocity on its own.
InitVel ==
  /\ InitSlots({})
  /\ \E ts \in VelInputs : vel = [times |-> ts, called |-> FALSE, result |-> Zero]
NextVel == CallVelocity
SpecVel == InitVel /\ [][NextVel]_vars

\* ------------------------------------------------------------------------
\* Properties
\* ------------------------------------------------------------------------
Done(s) == pc[s] = "done"
Slots == DOMAIN pc
LongEnough(r) == Len(r.wheel_times) >= 2 /\ Len(r.ball_times) >= 2
FiniteTimes(r) ==
  /\ \A i \in 1..Len(r.wheel_times) : r.wheel_times[i].k = "fin"
  /\ \A i \in 1..Len(r.ball_times) : r.ball_times[i].k = "fin"
IsPocket(v) == \E i \in 1..37 : ROULETTE_SEQUENCE[i] = v
Frames(s) == {out[s].calls[i] : i \in 1..Len(out[s].calls)}
Three == Fin(3 * Pow2(FracBits))
Five == Fin(5 * Pow2(FracBits))
Ten == Fin(10 * Pow2(FracBits))

\* C1: every request with at least 2 finite timestamps in each sequence gets
\* a left and a right prediction that are both values of the pocket sequence.
C1_AlwaysInRange ==
  \A s \in Slots :
    (Done(s) /\ LongEnough(req[s]) /\ FiniteTimes(req[s]))
      => /\ out[s].exc = "none"
         /\ IsPocket(out[s].left_prediction)
         /\ IsPocket(out[s].right_prediction)

\* C2: with fewer than 2 entries in wheel_times or ball_times,
\* compute_predictions raises the insufficient-data ValueError, makes no call
\* of predict_for_direction and returns no prediction.
C2_TooFewRaisesFirst ==
  \A s \in Slots :
    (Done(s) /\ (Len(req[s].wheel_times) < 2 \/ Len(req[s].ball_times) < 2))
      => /\ out[s].exc = "ValueError"
         /\ out[s].msg = "Not enough marks to compute prediction"
         /\ out[s].calls = <<>>
         /\ out[s].left_prediction = -1
         /\ out[s].right_prediction = -1
         /\ resp[s].status /= 200
C2_Witness ==
  \E s \in Slots :
    /\ Done(s)
    /\ Len(req[s].wheel_times) >= 2
    /\ Len(req[s].ball_times) = 1
    /\ out[s].exc = "ValueError"

\* C3: a degenerate input of sufficient length (identical or non-increasing
\* timestamps, a non-positive average period, or a zero regression
\* denominator, in either sequence) never raises: both directions return a
\* value of the pocket sequence.
NonIncreasing(times) ==
  \E i \in 1..(Len(times) - 1) : FLe(times[i + 1], times[i])
ZeroDenominator(times) ==
  /\ Len(times) >= 3
  /\ Len(ValidPairs(times)) >= 2
  /\ FEq(FSub(FMul(IntToF(Len(ValidPairs(times))),
                   Sum(Products(TimePoints(times, ValidPairs(times)),
                                TimePoints(times, ValidPairs(times))))),
              FMul(Sum(TimePoints(times, ValidPairs(times))),
                   Sum(TimePoints(times, ValidPairs(times))))),
         Zero)
Degenerate(times) ==
  \/ NonIncreasing(times)
  \/ FLe(AvgPeriod(Periods(times)), Zero)
  \/ ZeroDenominator(times)
C3_DegenerateNeverRaises ==
  \A s \in Slots :
    (Done(s) /\ LongEnough(req[s])
       /\ (Degenerate(req[s].wheel_times) \/ Degenerate(req[s].ball_times)))
      => /\ out[s].exc = "none"
         /\ IsPocket(out[s].left_prediction)
         /\ IsPocket(out[s].right_prediction)

\* C4: two handled requests with identical contents have identical outcomes
\* and responses, whatever was served before or is in flight beside them,
\* and a step of one request changes nothing of another request.
SameRequestSameResult ==
  \A s, t \in Slots :
    (Done(s) /\ Done(t) /\ req[s] = req[t]) => (out[s] = out[t] /\ resp[s] = resp[t])
Untouched(s) ==
  /\ req'[s] = req[s]
  /\ out'[s] = out[s]
  /\ resp'[s] = resp[s]
OnlyOwnState ==
  \A s \in Slots : (pc'[s] = pc[s]) => Untouched(s)
C5_StatusMapping ==
  \A s \in Slots :
    Done(s) =>
      /\ (out[s].exc = "ValueError" /\ out[s].calls = <<>>)
           => /\ resp[s].status = 400
              /\ resp[s].detail = "Not enough marks to compute prediction"
      /\ (out[s].exc \notin {"none", "ValueError"})
           => /\ resp[s].status = 500
              /\ resp[s].detail = "Prediction failed"
              /\ resp[s].detail /= out[s].msg
      /\ (out[s].exc = "none")
           => /\ resp[s].status = 200
              /\ resp[s].detail = ""
              /\ resp[s].left_prediction = out[s].left_prediction
              /\ resp[s].right_prediction = out[s].right_prediction
C5_Witness ==
  \E s \in Slots :
    /\ Done(s)
    /\ out[s].exc = "OverflowError"
    /\ resp[s].status = 500

\* C6: two requests with the same wheel_times and ball_times have the same
\* outcome, whatever their wheel_marks, ball_marks and mode.
C6_MarksUnused ==
  \A s, t \in Slots :
    (Done(s) /\ Done(t)
       /\ req[s].wheel_times = req[t].wheel_times
       /\ req[s].ball_times = req[t].ball_times)
      => /\ out[s].exc = out[t].exc
         /\ out[s].msg = out[t].msg
         /\ out[s].left_prediction = out[t].left_prediction
         /\ out[s].right_prediction = out[t].right_prediction
         /\ resp[s] = resp[t]
C6_Witness ==
  \E s, t \in Slots :
    /\ Done(s) /\ Done(t)
    /\ req[s].wheel_times = req[t].wheel_times
    /\ req[s].ball_times = req[t].ball_times
    /\ req[s].wheel_marks /= req[t].wheel_marks
    /\ req[s].mode /= req[t].mode
    /\ out[s].exc = "none"
    /\ out[t].exc = "none"

\* C7 as stated: for ball kinematics below the critical velocity, where
\* (ball_omega - sqrt(v_c^2)) / ball_alpha is negative, the raw computed
\* t_drop is negative and is replaced by 3.0 before the travel angles.
SlowBall(f) == FGt(f.ball_alpha, Zero) /\ FLt(f.ball_omega, sqrt_critical_velocity)
C7_NegativeRawReplaced ==
  \A s \in Slots : \A f \in Frames(s) :
    (Done(s) /\ SlowBall(f)) => (FLt(f.raw_t_drop, Zero) /\ f.t_drop = Three)

\* C7 as amended: the raw t_drop is never negative; for ball kinematics not
\* above the critical velocity the division is not made, t_drop is 3.0 as
\* first assigned, and the travel angles are those of t_drop = 3.0.
C7_RawNeverNegative ==
  \A s \in Slots : \A f \in Frames(s) :
    Done(s) =>
      /\ ~FLt(f.raw_t_drop, Zero)
      /\ FLe(f.ball_omega, sqrt_critical_velocity)
           => /\ f.raw_t_drop = Three
              /\ f.t_drop = Three
              /\ f.theta_ball = FiniteOr(Travel(f.ball_omega, f.ball_alpha, Three), 3)
              /\ f.theta_wheel = FiniteOr(Travel(f.wheel_omega, f.wheel_alpha, Three), 2)
C7_Witness ==
  \E s \in Slots : \E f \in Frames(s) :
    /\ Done(s)
    /\ SlowBall(f)
    /\ f.raw_t_drop = Three
    /\ f.t_drop = Three

\* C8 as stated: timestamps exactly p > 0 apart give the float nearest to
\* 1 / p, whatever their number and the first of them; fewer than 2
\* timestamps or a non-positive average period give 0.
Uniform(times, d) ==
  /\ \A i \in 1..Len(times) : times[i].k = "fin"
  /\ \A i \in 1..(Len(times) - 1) : times[i + 1].n - times[i].n = d
Spacings == 1..(2 * MaxN)
InverseOf(d) == RoundRat(1, Pow2(FracBits), d, FracBits)
ZeroCases(v) ==
  /\ Len(v.times) < 2 => v.result = Zero
  /\ (Len(v.times) >= 2 /\ FLe(AvgPeriod(Periods(v.times)), Zero)) => v.result = Zero
C8_ExactlyInverse ==
  vel.called =>
    /\ ZeroCases(vel)
    /\ Len(vel.times) >= 2 =>
         \A d \in {vel.times[2].n - vel.times[1].n} \cap Spacings :
           Uniform(vel.times, d) => vel.result = InverseOf(d)

\* C8 as amended: the result is the float nearest to 1 / p when the
\* differences and their sum are free of rounding and overflow (the first
\* difference is p and the sum of the differences is the whole span).
ExactSpan(times, d) ==
  /\ Periods(times)[1] = Fin(d)
  /\ Sum(Periods(times)) = Fin((Len(times) - 1) * d)
C8_InverseWhenExact ==
  vel.called =>
    /\ ZeroCases(vel)
    /\ Len(vel.times) >= 2 =>
         \A d \in {vel.times[2].n - vel.times[1].n} \cap Spacings :
           (Uniform(vel.times, d) /\ ExactSpan(vel.times, d))
             => vel.result = InverseOf(d)
C8_Witness ==
  /\ vel.called
  /\ Len(vel.times) >= 3
  /\ vel.times[1] /= Zero
  /\ \E d \in {vel.times[2].n - vel.times[1].n} \cap Spacings :
       /\ Uniform(vel.times, d)
       /\ ExactSpan(vel.times, d)
       /\ vel.result = InverseOf(d)
       /\ vel.result /= Zero

\* C9: each returned value is ROULETTE_SEQUENCE[(floor(|relative| * 37) mod
\* 37 + 5 + offset) mod 37], with relative = (theta_ball + theta_wheel) / 2pi
\* and offset 12 for "left", relative = (theta_ball - theta_wheel) / 2pi and
\* offset 0 for "right"; left_prediction is the "left" value and
\* right_prediction the "right" value.
Floor37(relative) ==
  (Abs(FMul(FAbs(relative), Fin(37 * Pow2(FracBits))).n) \div Pow2(FracBits)) % 37
C9_PocketSelection ==
  \A s \in Slots :
    (Done(s) /\ out[s].exc = "none") =>
      /\ Len(out[s].calls) = 2
      /\ LET l == out[s].calls[1]
             r == out[s].calls[2]
         IN /\ l.direction = "left" /\ r.direction = "right"
            /\ out[s].left_prediction =
                 ROULETTE_SEQUENCE[
                   ((Floor37(FDiv(FAdd(l.theta_ball, l.theta_wheel), TWO_PI)) + 5 + 12) % 37) + 1]
            /\ out[s].right_prediction =
                 ROULETTE_SEQUENCE[
                   ((Floor37(FDiv(FSub(r.theta_ball, r.theta_wheel), TWO_PI)) + 5 + 0) % 37) + 1]
C9_Witness ==
  \E s \in Slots :
    /\ Done(s)
    /\ out[s].exc = "none"
    /\ out[s].left_prediction /= out[s].right_prediction
    /\ out[s].calls[1].theta_wheel /= Zero

\* C10 as stated: after the floor/clamp step the four kinematic values are
\* strictly positive, the drop-time division does not divide by zero, and
\* the t_drop used satisfies 0 <= t_drop <= 10: 3.0 when ball omega does
\* not exceed the critical velocity, 5.0 when the raw value exceeds 10.
DropRules(f) ==
  /\ f.raw_t_drop.k /= "zde"
  /\ FLe(f.ball_omega, sqrt_critical_velocity) => f.t_drop = Three
  /\ FGt(f.raw_t_drop, Ten) => f.t_drop = Five
C10_AllPositive ==
  \A s \in Slots : \A f \in Frames(s) :
    Done(s) =>
      /\ FGt(f.wheel_alpha, Zero) /\ FGt(f.ball_alpha, Zero)
      /\ FGt(f.wheel_omega, Zero) /\ FGt(f.ball_omega, Zero)
      /\ FLe(Zero, f.t_drop) /\ FLe(f.t_drop, Ten)
      /\ DropRules(f)

\* C10 as amended: each omega is strictly positive; each deceleration is
\* strictly positive or NaN (NaN passes the test alpha <= 0); t_drop is in
\* 0..10, or NaN when ball omega and ball alpha are both infinite, and is 3.0
\* when ball alpha is NaN.
PositiveOrNaN(a) == FGt(a, Zero) \/ IsNaN(a)
C10_PositiveOrNaN ==
  \A s \in Slots : \A f \in Frames(s) :
    Done(s) =>
      /\ PositiveOrNaN(f.wheel_alpha) /\ PositiveOrNaN(f.ball_alpha)
      /\ FGt(f.wheel_omega, Zero) /\ FGt(f.ball_omega, Zero)
      /\ \/ FLe(Zero, f.t_drop) /\ FLe(f.t_drop, Ten)
         \/ IsNaN(f.t_drop) /\ f.ball_omega = PInf /\ f.ball_alpha = PInf
      /\ DropRules(f)
      /\ IsNaN(f.ball_alpha) => f.t_drop = Three
C10_Witness ==
  \E s \in Slots : \E f \in Frames(s) :
    /\ Done(s)
    /\ Len(req[s].wheel_times) = 2
    /\ f.wheel_alpha = Lit(1, 10)
    /\ FLe(AvgPeriod(Periods(req[s].ball_times)), Zero)
    /\ f.ball_omega = Fin(2 * Pow2(FracBits))
    /\ FGt(f.raw_t_drop, Ten)
    /\ f.t_drop = Five
====
